---- MODULE Spec2Model ----
(***************************************************************************)
(* A model of the CodeWisdom analyzer: the metric extraction over a syntax *)
(* tree (Analyzer.cpp), the two-branch scoring model                       *)
(* (Analyzer::calculateFinalScore) and the driver that analyses every file *)
(* of a directory and ranks the reports (main.cpp).                        *)
(*                                                                         *)
(* The C++ doubles are modelled as exact rationals [n, d] in lowest terms. *)
(***************************************************************************)
EXTENDS Integers, Sequences, FiniteSets, TLC

VARIABLES pc, language, tree, metrics, args, visited, all_metrics, exit_code,
          parser, heap, calls

vars == <<pc, language, tree, metrics, args, visited, all_metrics, exit_code,
          parser, heap, calls>>

(***************************************************************************)
(* Bounds of the model.                                                    *)
(***************************************************************************)
\* the longest functions list the scoring inputs are drawn with
MaxFuncs == 2
\* the largest number of nodes of a drawn syntax tree
MaxNodes == 4
\* the largest number of nodes of a tree drawn around exempt functions
MaxExemptNodes == 5
\* the largest number of directory entries one run visits
MaxFiles == 3
\* the largest number of Parser::parse calls made on one Parser
MaxParses == 3
\* the largest number of nodes of a tree drawn with free rows
MaxRowNodes == 4

(***************************************************************************)
(* Exact rational arithmetic standing for the double arithmetic.           *)
(***************************************************************************)
RECURSIVE Gcd(_, _)
Gcd(a, b) == IF b = 0 THEN a ELSE Gcd(b, a % b)

Abs(x) == IF x < 0 THEN -x ELSE x

\* the rational n/d (d # 0) in lowest terms with a positive denominator
Rat(n, d) ==
    LET g == Gcd(Abs(n), Abs(d))
        s == IF d < 0 THEN -1 ELSE 1
    IN  [n |-> s * (n \div g), d |-> s * (d \div g)]

RInt(i) == [n |-> i, d |-> 1]
RAdd(a, b) == Rat(a.n * b.d + b.n * a.d, a.d * b.d)
RSub(a, b) == Rat(a.n * b.d - b.n * a.d, a.d * b.d)
RMul(a, b) == Rat(a.n * b.n, a.d * b.d)
RDiv(a, b) == Rat(a.n * b.d, a.d * b.n)
RLe(a, b) == a.n * b.d <= b.n * a.d
RLt(a, b) == a.n * b.d < b.n * a.d
RMax(a, b) == IF RLt(a, b) THEN b ELSE a
RMin(a, b) == IF RLt(b, a) THEN b ELSE a
RAbs(a) == [n |-> Abs(a.n), d |-> a.d]

(***************************************************************************)
(* Metrics.h: the result structures and their default member values.       *)
(***************************************************************************)
FunctionMetric(name, line_start, line_end, complexity) ==
    [name |-> name, line_start |-> line_start, line_end |-> line_end,
     line_count |-> line_end - line_start + 1, complexity |-> complexity]

FileMetrics ==
    [file_path |-> <<>>, functions |-> <<>>,
     avg_function_length |-> RInt(0), avg_function_complexity |-> RInt(0),
     total_lines |-> 0, comment_lines |-> 0,
     comment_coverage_ratio |-> RInt(0), naming_violations |-> 0,
     shit_mountain_index |-> RInt(0)]

(***************************************************************************)
(* Analyzer::calculateFinalScore.                                          *)
(***************************************************************************)
RECURSIVE SumField(_, _)
\* the accumulation loop over metrics.functions
SumField(fs, which) ==
    IF fs = <<>> THEN 0
    ELSE (IF which = "length" THEN Head(fs).line_count ELSE Head(fs).complexity)
         + SumField(Tail(fs), which)

\* Step 1: the aggregated raw metrics
Aggregate(m) ==
    LET withAvg ==
            IF m.functions # <<>>
            THEN [m EXCEPT
                    !.avg_function_length =
                        Rat(SumField(m.functions, "length"), Len(m.functions)),
                    !.avg_function_complexity =
                        Rat(SumField(m.functions, "complexity"), Len(m.functions))]
            ELSE m
    IN  IF withAvg.total_lines > 0
        THEN [withAvg EXCEPT !.comment_coverage_ratio =
                 RMul(Rat(withAvg.comment_lines, withAvg.total_lines), RInt(100))]
        ELSE withAvg

NamingScore(m) == RMax(RInt(0), RSub(RInt(100), RInt(m.naming_violations * 5)))

\* MODEL A: the comment score of a file with no analyzable functions
CommentScoreA(m) ==
    RMin(RInt(100), RMul(RDiv(m.comment_coverage_ratio, RInt(30)), RInt(100)))

\* the decay taken from the difference 1 - average instead of average - 1
ComplexityScore_Rising(m) ==
    RMax(RInt(0),
         RSub(RInt(100),
              RMul(RDiv(RSub(RInt(1), m.avg_function_complexity), RInt(20 - 1)),
                   RInt(100))))

\* the decay divided by the worst complexity instead of the span 20 - 1
ComplexityScore_WrongSpan(m) ==
    RMax(RInt(0),
         RSub(RInt(100),
              RMul(RDiv(RSub(m.avg_function_complexity, RInt(1)), RInt(20)),
                   RInt(100))))

ComplexityScore(m) ==
    RMax(RInt(0),
         RSub(RInt(100),
              RMul(RDiv(RSub(m.avg_function_complexity, RInt(1)), RInt(20 - 1)),
                   RInt(100))))

\* the decay divided by the worst length instead of the span 100 - 10
LengthScore_WrongSpan(m) ==
    RMax(RInt(0),
         RSub(RInt(100),
              RMul(RDiv(RSub(m.avg_function_length, RInt(10)), RInt(100)), RInt(100))))

LengthScore(m) ==
    RMax(RInt(0),
         RSub(RInt(100),
              RMul(RDiv(RSub(m.avg_function_length, RInt(10)), RInt(100 - 10)),
                   RInt(100))))

\* MODEL B: the comment score of a file with functions
CommentScoreB(m) ==
    RMax(RInt(0),
         RSub(RInt(100),
              RMul(RDiv(RAbs(RSub(m.comment_coverage_ratio, RInt(15))), RInt(15)),
                   RInt(100))))

COMPLEXITY_WEIGHT == Rat(50, 100)
LENGTH_WEIGHT == Rat(15, 100)
COMMENT_WEIGHT == Rat(15, 100)
NAMING_WEIGHT == Rat(20, 100)

ModelA(m) ==
    LET total_quality_score ==
            RAdd(RMul(CommentScoreA(m), Rat(7, 10)), RMul(NamingScore(m), Rat(3, 10)))
    IN  [m EXCEPT !.shit_mountain_index = RSub(RInt(100), total_quality_score)]

ModelB(m) ==
    LET total_quality_score ==
            RAdd(RAdd(RAdd(RMul(ComplexityScore(m), COMPLEXITY_WEIGHT),
                           RMul(LengthScore(m), LENGTH_WEIGHT)),
                      RMul(CommentScoreB(m), COMMENT_WEIGHT)),
                 RMul(NamingScore(m), NAMING_WEIGHT))
    IN  [m EXCEPT !.shit_mountain_index = RSub(RInt(100), total_quality_score)]

\* the no-function branch left out
calculateFinalScore_AlwaysB(m0) == ModelB(Aggregate(m0))

calculateFinalScore(m0) ==
    LET m == Aggregate(m0)
    IN  IF m.functions = <<>> THEN ModelA(m) ELSE ModelB(m)

(***************************************************************************)
(* The syntax tree handed over by tree-sitter: a sequence of nodes in      *)
(* pre-order, node 1 the root; 0 stands for the null node.  A node carries *)
(* its type, the field name under which its parent holds it ("" for none), *)
(* its source text and its 0-based start and end rows.                     *)
(***************************************************************************)
NullNode == 0

Node(type, field, text) == [type |-> type, field |-> field, text |-> text]

ts_node_type(t, n) == t[n].type
ts_node_parent(t, n) == t[n].parent
ts_node_is_null(n) == n = NullNode

\* ts_node_child(node, 0 .. ts_node_child_count(node) - 1), in order
Children(t, n) == SelectSeq([i \in 1..Len(t) |-> i], LAMBDA i : t[i].parent = n)

ts_node_child_by_field_name(t, n, field) ==
    LET held == SelectSeq(Children(t, n), LAMBDA c : t[c].field = field)
    IN  IF held = <<>> THEN NullNode ELSE held[1]

getNodeText(t, n) == IF ts_node_is_null(n) THEN "" ELSE t[n].text

RECURSIVE findIdentifierRecursive(_, _), findIdentifierIn(_, _)
findIdentifierRecursive(t, n) ==
    IF ts_node_type(t, n) = "identifier" THEN n
    ELSE findIdentifierIn(t, Children(t, n))

\* the loop over the children: the first child with a non-null result
findIdentifierIn(t, cs) ==
    IF cs = <<>> THEN NullNode
    ELSE LET result == findIdentifierRecursive(t, Head(cs))
         IN  IF ~ts_node_is_null(result) THEN result
             ELSE findIdentifierIn(t, Tail(cs))

RECURSIVE hasChildOfTypeRecursive(_, _, _)
hasChildOfTypeRecursive(t, n, type) ==
    \/ ts_node_type(t, n) = type
    \/ \E k \in 1..Len(Children(t, n)) :
           hasChildOfTypeRecursive(t, Children(t, n)[k], type)

(***************************************************************************)
(* The language strategies and their factory.                              *)
(***************************************************************************)
Languages == {"c", "cpp", "python", "java", "rust", "go", "javascript", "typescript"}

createStrategy(lang) ==
    CASE lang = "c" -> "CStrategy"
      [] lang = "cpp" -> "CppStrategy"
      [] lang = "python" -> "PythonStrategy"
      [] lang = "java" -> "JavaStrategy"
      [] lang = "rust" -> "RustStrategy"
      [] lang = "go" -> "GoStrategy"
      [] lang = "javascript" -> "JSStrategy"
      [] lang = "typescript" -> "TSStrategy"
      [] OTHER -> "nullptr"

\* CppStrategy derives from CStrategy and TSStrategy from JSStrategy
Implementation(strategy) ==
    CASE strategy = "CppStrategy" -> "CStrategy"
      [] strategy = "TSStrategy" -> "JSStrategy"
      [] OTHER -> strategy

getFunctionDefinitionTypes(strategy) ==
    CASE Implementation(strategy) = "CStrategy" -> {"function_definition"}
      [] Implementation(strategy) = "PythonStrategy" -> {"function_definition"}
      [] Implementation(strategy) = "JavaStrategy" ->
            {"method_declaration", "constructor_declaration"}
      [] Implementation(strategy) = "RustStrategy" -> {"function_item"}
      [] Implementation(strategy) = "GoStrategy" ->
            {"function_declaration", "method_declaration"}
      [] Implementation(strategy) = "JSStrategy" ->
            {"function_declaration", "function", "arrow_function", "method_definition"}

getComplexityNodeTypes(strategy) ==
    CASE Implementation(strategy) = "CStrategy" ->
            {"if_statement", "for_statement", "while_statement", "do_statement",
             "case_statement", "catch_clause", "conditional_expression"}
      [] Implementation(strategy) = "PythonStrategy" ->
            {"if_statement", "for_statement", "while_statement", "except_clause",
             "conditional_expression", "elif_clause"}
      [] Implementation(strategy) = "JavaStrategy" ->
            {"if_statement", "for_statement", "while_statement", "do_statement",
             "switch_expression", "catch_clause", "ternary_expression"}
      [] Implementation(strategy) = "RustStrategy" ->
            {"if_expression", "for_expression", "while_expression", "match_arm",
             "loop_expression"}
      [] Implementation(strategy) = "GoStrategy" ->
            {"if_statement", "for_statement", "switch_statement", "select_statement"}
      [] Implementation(strategy) = "JSStrategy" ->
            {"if_statement", "for_statement", "for_in_statement", "while_statement",
             "do_statement", "switch_case", "catch_clause", "ternary_expression"}

\* LanguageStrategy::isLogicalOperator and its Python override
isLogicalOperator(strategy, t, n) ==
    IF Implementation(strategy) = "PythonStrategy"
    THEN ts_node_type(t, n) = "boolean_operator"
    ELSE /\ ts_node_type(t, n) = "binary_expression"
         /\ LET op == ts_node_child_by_field_name(t, n, "operator")
            IN  /\ ~ts_node_is_null(op)
                /\ ts_node_type(t, op) \in {"&&", "||"}

\* the search for operator_name left out
isSpecialFunction_DestructorOnly(strategy, t, n) ==
    /\ Implementation(strategy) = "CStrategy"
    /\ LET first == ts_node_child_by_field_name(t, n, "declarator")
           declarator == IF ts_node_is_null(first)
                         THEN ts_node_child_by_field_name(t, n, "abstract_declarator")
                         ELSE first
       IN  /\ ~ts_node_is_null(declarator)
           /\ hasChildOfTypeRecursive(t, declarator, "destructor_name")

\* LanguageStrategy::isSpecialFunction and its C/C++ override
isSpecialFunction(strategy, t, n) ==
    /\ Implementation(strategy) = "CStrategy"
    /\ LET first == ts_node_child_by_field_name(t, n, "declarator")
           declarator == IF ts_node_is_null(first)
                         THEN ts_node_child_by_field_name(t, n, "abstract_declarator")
                         ELSE first
       IN  /\ ~ts_node_is_null(declarator)
           /\ \/ hasChildOfTypeRecursive(t, declarator, "operator_name")
              \/ hasChildOfTypeRecursive(t, declarator, "destructor_name")

CStrategy_extractFunctionName(t, n) ==
    LET declaratorNode == ts_node_child_by_field_name(t, n, "declarator")
        identifierNode == IF ts_node_is_null(declaratorNode) THEN NullNode
                          ELSE findIdentifierRecursive(t, declaratorNode)
    IN  IF ~ts_node_is_null(identifierNode) THEN getNodeText(t, identifierNode)
        ELSE "[extraction_failed]"

JSStrategy_extractFunctionName(t, n) ==
    LET nameNode == ts_node_child_by_field_name(t, n, "name")
        parent == ts_node_parent(t, n)
    IN  IF ~ts_node_is_null(nameNode) THEN getNodeText(t, nameNode)
        ELSE IF /\ ts_node_type(t, n) = "arrow_function"
                /\ parent # NullNode
                /\ ts_node_type(t, parent) = "variable_declarator"
             THEN getNodeText(t, ts_node_child_by_field_name(t, parent, "name"))
             ELSE "[anonymous function]"

extractFunctionName(strategy, t, n) ==
    CASE Implementation(strategy) = "CStrategy" -> CStrategy_extractFunctionName(t, n)
      [] Implementation(strategy) = "JSStrategy" -> JSStrategy_extractFunctionName(t, n)
      [] OTHER -> getNodeText(t, ts_node_child_by_field_name(t, n, "name"))

(***************************************************************************)
(* Analyzer: the three traversals.                                         *)
(***************************************************************************)
RECURSIVE calculateComplexity(_, _, _), calculateComplexityOver(_, _, _)
\* the base point of the function node left out
calculateComplexity_NoBase(strategy, t, n) ==
    LET own == IF ts_node_type(t, n) \in getComplexityNodeTypes(strategy) THEN 1
               ELSE IF isLogicalOperator(strategy, t, n) THEN 1
               ELSE 0
    IN  own + calculateComplexityOver(strategy, t, Children(t, n))

\* the check for a logical operator left out
calculateComplexity_NoLogical(strategy, t, n) ==
    LET own == IF ts_node_type(t, n) \in getComplexityNodeTypes(strategy) THEN 1
               ELSE 0
        complexity == own + calculateComplexityOver(strategy, t, Children(t, n))
    IN  IF ts_node_type(t, n) \in getFunctionDefinitionTypes(strategy)
        THEN complexity + 1
        ELSE complexity

calculateComplexity(strategy, t, n) ==
    LET own == IF ts_node_type(t, n) \in getComplexityNodeTypes(strategy) THEN 1
               ELSE IF isLogicalOperator(strategy, t, n) THEN 1
               ELSE 0
        complexity == own + calculateComplexityOver(strategy, t, Children(t, n))
    IN  IF ts_node_type(t, n) \in getFunctionDefinitionTypes(strategy)
        THEN complexity + 1
        ELSE complexity

\* the loop adding up the children
calculateComplexityOver(strategy, t, cs) ==
    IF cs = <<>> THEN 0
    ELSE calculateComplexity(strategy, t, Head(cs))
         + calculateComplexityOver(strategy, t, Tail(cs))

\* the fallback for an empty extracted name left out
RecordedName_NoFallback(strategy, t, n) == extractFunctionName(strategy, t, n)

\* func.name as analyzeSingleFunction stores it
RecordedName(strategy, t, n) ==
    LET name == extractFunctionName(strategy, t, n)
    IN  IF name = "" THEN "[anonymous/unknown]" ELSE name

analyzeSingleFunction(strategy, t, n, m) ==
    LET func == FunctionMetric(RecordedName(strategy, t, n),
                               t[n].start_row + 1, t[n].end_row + 1,
                               calculateComplexity(strategy, t, n))
    IN  [m EXCEPT !.functions = Append(@, func)]

RECURSIVE analyzeFunctions(_, _, _, _), analyzeFunctionsOver(_, _, _, _)
\* the discovery going on below a function definition
analyzeFunctions_Descending(strategy, t, n, m) ==
    LET m1 == IF /\ ts_node_type(t, n) \in getFunctionDefinitionTypes(strategy)
                 /\ ~isSpecialFunction(strategy, t, n)
              THEN analyzeSingleFunction(strategy, t, n, m)
              ELSE m
    IN  analyzeFunctionsOver(strategy, t, Children(t, n), m1)

\* the discovery going on below an exempt function definition
analyzeFunctions_DescendingExempt(strategy, t, n, m) ==
    IF /\ ts_node_type(t, n) \in getFunctionDefinitionTypes(strategy)
       /\ ~isSpecialFunction(strategy, t, n)
    THEN analyzeSingleFunction(strategy, t, n, m)
    ELSE analyzeFunctionsOver(strategy, t, Children(t, n), m)

analyzeFunctions(strategy, t, n, m) ==
    IF ts_node_type(t, n) \in getFunctionDefinitionTypes(strategy)
    THEN IF ~isSpecialFunction(strategy, t, n)
         THEN analyzeSingleFunction(strategy, t, n, m)
         ELSE m
    ELSE analyzeFunctionsOver(strategy, t, Children(t, n), m)

analyzeFunctionsOver(strategy, t, cs, m) ==
    IF cs = <<>> THEN m
    ELSE analyzeFunctionsOver(strategy, t, Tail(cs),
                              analyzeFunctions(strategy, t, Head(cs), m))

RECURSIVE analyzeFileWideMetrics(_, _, _), analyzeFileWideMetricsOver(_, _, _)
\* every comment node taken for one line
analyzeFileWideMetrics_OneLineEach(t, n, m) ==
    LET m1 == IF ts_node_is_null(ts_node_parent(t, n))
              THEN [m EXCEPT !.total_lines = t[n].end_row + 1]
              ELSE m
        m2 == IF ts_node_type(t, n) = "comment"
              THEN [m1 EXCEPT !.comment_lines = @ + 1]
              ELSE m1
    IN  analyzeFileWideMetricsOver(t, Children(t, n), m2)

analyzeFileWideMetrics(t, n, m) ==
    LET m1 == IF ts_node_is_null(ts_node_parent(t, n))
              THEN [m EXCEPT !.total_lines = t[n].end_row + 1]
              ELSE m
        m2 == IF ts_node_type(t, n) = "comment"
              THEN [m1 EXCEPT !.comment_lines = @ + (t[n].end_row - t[n].start_row + 1)]
              ELSE m1
    IN  analyzeFileWideMetricsOver(t, Children(t, n), m2)

analyzeFileWideMetricsOver(t, cs, m) ==
    IF cs = <<>> THEN m
    ELSE analyzeFileWideMetricsOver(t, Tail(cs), analyzeFileWideMetrics(t, Head(cs), m))

whitelist == {"i", "j", "k", "x", "y", "z", "os", "fs", "it", "c", "ts", "js"}

RECURSIVE analyzeNaming(_, _, _), analyzeNamingOver(_, _, _)
\* analyzeNaming taking only names shorter than two bytes for short
analyzeNaming_StrictlyShorter(t, n, m) ==
    LET m1 == IF /\ ts_node_type(t, n) = "identifier"
                 /\ Len(getNodeText(t, n)) < 2
                 /\ getNodeText(t, n) \notin whitelist
              THEN [m EXCEPT !.naming_violations = @ + 1]
              ELSE m
    IN  analyzeNamingOver(t, Children(t, n), m1)

analyzeNaming(t, n, m) ==
    LET m1 == IF /\ ts_node_type(t, n) = "identifier"
                 /\ Len(getNodeText(t, n)) <= 2
                 /\ getNodeText(t, n) \notin whitelist
              THEN [m EXCEPT !.naming_violations = @ + 1]
              ELSE m
    IN  analyzeNamingOver(t, Children(t, n), m1)

analyzeNamingOver(t, cs, m) ==
    IF cs = <<>> THEN m
    ELSE analyzeNamingOver(t, Tail(cs), analyzeNaming(t, Head(cs), m))

RootNode == 1

\* Analyzer::analyze filling the report of the analyzer's previous call instead
\* of a fresh FileMetrics
analyze_KeepingReport(strategy, t, filePath) ==
    LET m0 == [metrics EXCEPT !.file_path = filePath]
        m3 == IF strategy # "nullptr"
              THEN analyzeNaming(t, RootNode,
                       analyzeFileWideMetrics(t, RootNode,
                           analyzeFunctions(strategy, t, RootNode, m0)))
              ELSE m0
    IN  calculateFinalScore(m3)

\* Analyzer::analyze on the root of tree t with the analyzer's strategy
analyze(strategy, t, filePath) ==
    LET m0 == [FileMetrics EXCEPT !.file_path = filePath]
        m3 == IF strategy # "nullptr"
              THEN analyzeNaming(t, RootNode,
                       analyzeFileWideMetrics(t, RootNode,
                           analyzeFunctions(strategy, t, RootNode, m0)))
              ELSE m0
    IN  calculateFinalScore(m3)

(***************************************************************************)
(* Parser.cpp: the Parser object.  parser.tree is the TSTree* member, a    *)
(* handle into heap (nullptr is 0); heap[h] is the tree object that        *)
(* ts_parser_parse_string returned h-th, with the number of times          *)
(* ts_tree_delete was called on it; calls lists, per Parser::parse call,   *)
(* the value returned and the tree the call produced.                      *)
(***************************************************************************)
nullptr == 0

\* Parser::Parser(): parser(ts_parser_new()), tree(nullptr)
Parser_Parser ==
    /\ parser = [tree |-> nullptr, destroyed |-> FALSE]
    /\ heap = <<>>
    /\ calls = <<>>

(***************************************************************************)
(* The scoring specification: the raw metrics the three traversals can     *)
(* leave behind are drawn from bounded sets and calculateFinalScore is     *)
(* applied to them.                                                        *)
(***************************************************************************)
LineCountSamples == {1, 10, 100}
ComplexitySamples == {1, 20, 39}
TotalLinesSamples == {7, 20, 100}
CommentLinesSamples == {0, 1, 3, 6, 40}
ViolationSamples == {0, 1, 20, 21}

FunctionSamples ==
    { FunctionMetric("f", 1, lc, cx) : lc \in LineCountSamples, cx \in ComplexitySamples }

RECURSIVE SeqsUpTo(_, _)
\* the sequences over S of length at most k
SeqsUpTo(S, k) ==
    IF k = 0 THEN {<<>>}
    ELSE LET shorter == SeqsUpTo(S, k - 1)
         IN  shorter \cup { Append(s, x) : s \in shorter, x \in S }

SamplePath == <<"a", ".", "c">>

RawMetricsSamples ==
    { [FileMetrics EXCEPT !.file_path = SamplePath, !.functions = fs,
                          !.total_lines = tl, !.comment_lines = cl,
                          !.naming_violations = nv] :
        fs \in SeqsUpTo(FunctionSamples, MaxFuncs), tl \in TotalLinesSamples,
        cl \in CommentLinesSamples, nv \in ViolationSamples }

\* a function lies within the file: no function is longer than the file
FitsFile(m) == \A k \in 1..Len(m.functions) : m.functions[k].line_count <= m.total_lines

InitScore ==
    /\ pc = "extracted"
    /\ language = "cpp"
    /\ tree = <<>>
    /\ metrics \in { m \in RawMetricsSamples : FitsFile(m) }
    /\ args = [argc |-> 2, kind |-> "regular"]
    /\ visited = <<>>
    /\ all_metrics = <<>>
    /\ exit_code = -1
    /\ Parser_Parser

CalculateFinalScore ==
    /\ pc = "extracted"
    /\ pc' = "scored"
    /\ metrics' = calculateFinalScore(metrics)
    /\ UNCHANGED <<language, tree, args, visited, all_metrics, exit_code,
                   parser, heap, calls>>

NextScore == CalculateFinalScore

SpecScore == InitScore /\ [][NextScore]_vars

(***************************************************************************)
(* The extraction specifications: a language and a syntax tree are drawn   *)
(* from bounded sets and Analyzer::analyze is applied to the root.         *)
(***************************************************************************)
RECURSIVE AncestorsOrSelf(_, _)
\* node i and its ancestors under the parent sequence p
AncestorsOrSelf(p, i) == IF i = NullNode THEN {} ELSE {i} \cup AncestorsOrSelf(p, p[i])

RECURSIVE Shapes(_)
\* the parent sequences of the ordered trees with k nodes numbered in pre-order
Shapes(k) ==
    IF k = 1 THEN {<<NullNode>>}
    ELSE UNION { { Append(p, a) : a \in AncestorsOrSelf(p, k - 1) } : p \in Shapes(k - 1) }

\* the last node of the subtree of i (the subtree is i .. LastOfSubtree)
LastOfSubtree(p, i) ==
    CHOOSE j \in i..Len(p) :
        /\ i \in AncestorsOrSelf(p, j)
        /\ \A h \in (j + 1)..Len(p) : i \notin AncestorsOrSelf(p, h)

\* every node starts on a row of its own and ends with its last descendant
BuildTree(p, kinds) ==
    [i \in 1..Len(p) |->
        [type |-> kinds[i].type, field |-> kinds[i].field, text |-> kinds[i].text,
         parent |-> p[i], start_row |-> i - 1, end_row |-> LastOfSubtree(p, i) - 1]]

RootKind(lang) ==
    CASE lang \in {"c", "cpp"} -> Node("translation_unit", "", "")
      [] lang = "python" -> Node("module", "", "")
      [] lang \in {"rust", "go"} -> Node("source_file", "", "")
      [] OTHER -> Node("program", "", "")

\* t is a tree of at most maxNodes nodes whose nodes below the root are of the given kinds
DrawnTree(t, lang, kinds, maxNodes) ==
    \E k \in 1..maxNodes : \E p \in Shapes(k) : \E rest \in [1..(k - 1) -> kinds] :
        t = BuildTree(p, <<RootKind(lang)>> \o rest)

FunctionKinds(lang) ==
    { Node(type, "", "fn") : type \in getFunctionDefinitionTypes(createStrategy(lang)) }

\* node kinds around function definitions and their names
NameKinds(lang) ==
    FunctionKinds(lang) \cup
    CASE lang \in {"c", "cpp"} ->
            {Node("function_declarator", "declarator", "run()"),
             Node("identifier", "", "run"),
             Node("destructor_name", "", "~T"),
             Node("if_statement", "", "if")}
      [] lang \in {"javascript", "typescript"} ->
            {Node("identifier", "name", "run"),
             Node("variable_declarator", "", "v"),
             Node("if_statement", "", "if")}
      [] lang = "rust" ->
            {Node("identifier", "name", "run"), Node("if_expression", "", "if")}
      [] OTHER ->
            {Node("identifier", "name", "run"), Node("if_statement", "", "if")}

\* node kinds around C/C++ destructor and operator definitions
ExemptKinds(lang) ==
    FunctionKinds(lang) \cup
    {Node("function_declarator", "declarator", "run()"),
     Node("abstract_function_declarator", "abstract_declarator", "()"),
     Node("destructor_name", "", "~T"),
     Node("operator_name", "", "operator+"),
     Node("if_statement", "", "if")}

InitTree ==
    /\ pc = "parsed"
    /\ language \in Languages
    /\ DrawnTree(tree, language, NameKinds(language), MaxNodes)
    /\ metrics = FileMetrics
    /\ args = [argc |-> 2, kind |-> "regular"]
    /\ visited = <<>>
    /\ all_metrics = <<>>
    /\ exit_code = -1
    /\ Parser_Parser

InitExempt ==
    /\ pc = "parsed"
    /\ language \in {"c", "cpp"}
    /\ DrawnTree(tree, language, ExemptKinds(language), MaxExemptNodes)
    /\ metrics = FileMetrics
    /\ args = [argc |-> 2, kind |-> "regular"]
    /\ visited = <<>>
    /\ all_metrics = <<>>
    /\ exit_code = -1
    /\ Parser_Parser

\* Analyzer analyzer(createStrategy(language)); analyzer.analyze(root, ...)
Analyze ==
    /\ pc = "parsed"
    /\ pc' = "analyzed"
    /\ metrics' = analyze(createStrategy(language), tree, SamplePath)
    /\ UNCHANGED <<language, tree, args, visited, all_metrics, exit_code,
                   parser, heap, calls>>

NextTree == Analyze

SpecTree == InitTree /\ [][NextTree]_vars

SpecExempt == InitExempt /\ [][NextTree]_vars

\* node kinds around identifiers: short and long names, allowed and not, and
\* short texts of nodes that are not identifiers
NamingKinds(lang) ==
    FunctionKinds(lang) \cup
    {Node("identifier", "", "i"), Node("identifier", "", "q"),
     Node("identifier", "", "aa"), Node("identifier", "", "ts"),
     Node("identifier", "", "abc"),
     Node("type_identifier", "", "T"), Node("number_literal", "", "7")}

InitNaming ==
    /\ pc = "parsed"
    /\ language \in {"cpp", "python"}
    /\ DrawnTree(tree, language, NamingKinds(language), MaxNodes)
    /\ metrics = FileMetrics
    /\ args = [argc |-> 2, kind |-> "regular"]
    /\ visited = <<>>
    /\ all_metrics = <<>>
    /\ exit_code = -1
    /\ Parser_Parser

SpecNaming == InitNaming /\ [][NextTree]_vars

\* node kinds around decision points: a branch, binary expressions with
\* their operator children, a stray && token and Python's boolean operator
DecisionKinds(lang) ==
    FunctionKinds(lang) \cup
    {Node("if_statement", "", "if"),
     Node("binary_expression", "", "a && b"),
     Node("&&", "operator", "&&"),
     Node("+", "operator", "+"),
     Node("&&", "", "&&"),
     Node("boolean_operator", "", "a and b")}

InitDecisions ==
    /\ pc = "parsed"
    /\ language \in {"cpp", "python", "java"}
    /\ DrawnTree(tree, language, DecisionKinds(language), MaxNodes)
    /\ metrics = FileMetrics
    /\ args = [argc |-> 2, kind |-> "regular"]
    /\ visited = <<>>
    /\ all_metrics = <<>>
    /\ exit_code = -1
    /\ Parser_Parser

SpecDecisions == InitDecisions /\ [][NextTree]_vars

(***************************************************************************)
(* Trees with free rows: a node starts on the row where the text before it *)
(* ends (the end of its previous sibling, or the start of its parent) or   *)
(* on the next row, and a comment or the root may run one row beyond its   *)
(* start or its last child.                                                *)
(***************************************************************************)
\* the previous sibling of node i, NullNode for a first child
PrevSibling(p, i) ==
    LET before == { j \in 1..(i - 1) : p[j] = p[i] }
    IN  IF before = {} THEN NullNode ELSE CHOOSE j \in before : \A h \in before : h <= j

\* the last child of node i, NullNode for a leaf
LastChild(p, i) ==
    LET cs == { j \in 1..Len(p) : p[j] = i }
    IN  IF cs = {} THEN NullNode ELSE CHOOSE j \in cs : \A h \in cs : h <= j

RECURSIVE StartRow(_, _, _, _), EndRow(_, _, _, _)
StartRow(p, nl, tall, i) ==
    IF p[i] = NullNode THEN 0
    ELSE (IF PrevSibling(p, i) = NullNode
          THEN StartRow(p, nl, tall, p[i])
          ELSE EndRow(p, nl, tall, PrevSibling(p, i))) + nl[i]

EndRow(p, nl, tall, i) ==
    (IF LastChild(p, i) = NullNode
     THEN StartRow(p, nl, tall, i)
     ELSE EndRow(p, nl, tall, LastChild(p, i))) + tall[i]

BuildTreeRows(p, kinds, nl, tall) ==
    [i \in 1..Len(p) |->
        [type |-> kinds[i].type, field |-> kinds[i].field, text |-> kinds[i].text,
         parent |-> p[i], start_row |-> StartRow(p, nl, tall, i),
         end_row |-> EndRow(p, nl, tall, i)]]

\* t is a tree of at most maxNodes nodes of the given kinds laid out on free rows
DrawnTreeRows(t, lang, kinds, maxNodes) ==
    \E k \in 1..maxNodes : \E p \in Shapes(k) : \E rest \in [1..(k - 1) -> kinds] :
        LET all == <<RootKind(lang)>> \o rest
        IN  \E nl \in [1..k -> {0, 1}], tall \in [1..k -> {0, 1}] :
                /\ nl[1] = 0
                /\ \A i \in 1..k : tall[i] = 1 => (i = 1 \/ all[i].type = "comment")
                /\ t = BuildTreeRows(p, all, nl, tall)

\* node kinds around comments
CommentKinds(lang) ==
    FunctionKinds(lang) \cup
    {Node("comment", "", "/* */"), Node("compound_statement", "", "{}")}

InitComments ==
    /\ pc = "parsed"
    /\ language = "cpp"
    /\ DrawnTreeRows(tree, language, CommentKinds(language), MaxRowNodes)
    /\ metrics = FileMetrics
    /\ args = [argc |-> 2, kind |-> "regular"]
    /\ visited = <<>>
    /\ all_metrics = <<>>
    /\ exit_code = -1
    /\ Parser_Parser

SpecComments == InitComments /\ [][NextTree]_vars

\* a second analyzer.analyze(root, ...) call on the same Analyzer with the
\* same tree, path and source
AnalyzeAgain ==
    /\ pc = "analyzed"
    /\ pc' = "reanalyzed"
    /\ metrics' = analyze(createStrategy(language), tree, SamplePath)
    /\ UNCHANGED <<language, tree, args, visited, all_metrics, exit_code,
                   parser, heap, calls>>

NextTwice == Analyze \/ AnalyzeAgain

SpecTwice == InitNaming /\ [][NextTwice]_vars

(***************************************************************************)
(* Parser.cpp and main.cpp: one run of the program over the entries of a   *)
(* directory (or over one file).  A path is the sequence of its            *)
(* characters.  An entry of the file system carries its path, whether it   *)
(* is a regular file, whether it can be opened, and what                   *)
(* ts_parser_parse_string makes of its content: a tree (<<>> for the null  *)
(* tree) and whether the tree contains a syntax error.                     *)
(***************************************************************************)
NullTree == <<>>

\* Parser::getLanguage: the grammar of a language identifier, or nullptr
getLanguage(lang) == IF lang \in Languages THEN lang ELSE "nullptr"

\* Parser::parse on a fresh Parser, then Parser::getRootNode
Parser_parse(source, lang) ==
    IF getLanguage(lang) = "nullptr" THEN FALSE
    ELSE source.tree # NullTree /\ ~source.has_error

\* the index of the last '.' of the path, 0 for npos
find_last_of_dot(filePath) ==
    LET dots == { k \in 1..Len(filePath) : filePath[k] = "." }
    IN  IF dots = {} THEN 0 ELSE CHOOSE k \in dots : \A h \in dots : h <= k

extension_map(ext) ==
    CASE ext = <<".", "c", "p", "p">> -> "cpp"
      [] ext = <<".", "h", "p", "p">> -> "cpp"
      [] ext = <<".", "h">> -> "cpp"
      [] ext = <<".", "c", "c">> -> "cpp"
      [] ext = <<".", "c", "x", "x">> -> "cpp"
      [] ext = <<".", "c">> -> "c"
      [] ext = <<".", "p", "y">> -> "python"
      [] ext = <<".", "j", "a", "v", "a">> -> "java"
      [] ext = <<".", "r", "s">> -> "rust"
      [] ext = <<".", "g", "o">> -> "go"
      [] ext = <<".", "j", "s">> -> "javascript"
      [] ext = <<".", "t", "s">> -> "typescript"
      [] OTHER -> "unsupported"

getLanguageFromFile(filePath) ==
    LET pos == find_last_of_dot(filePath)
    IN  IF pos = 0 THEN "unsupported"
        ELSE extension_map(SubSeq(filePath, pos, Len(filePath)))

\* a failed parse analysed all the same
analyzeFile_IgnoringParseResult(entry) ==
    LET lang == getLanguageFromFile(entry.path)
    IN  IF lang = "unsupported" THEN FileMetrics
        ELSE IF ~entry.openable THEN FileMetrics
        ELSE IF entry.source.tree # NullTree
             THEN analyze(createStrategy(lang), entry.source.tree, entry.path)
             ELSE FileMetrics

analyzeFile(entry) ==
    LET lang == getLanguageFromFile(entry.path)
    IN  IF lang = "unsupported" THEN FileMetrics
        ELSE IF ~entry.openable THEN FileMetrics
        ELSE IF Parser_parse(entry.source, lang)
             THEN IF createStrategy(lang) = "nullptr" THEN FileMetrics
                  ELSE analyze(createStrategy(lang), entry.source.tree, entry.path)
             ELSE FileMetrics

\* all_metrics after analyzeFile and the push_back of a non-empty result
Collect(reports, entry) ==
    LET result == analyzeFile(entry)
    IN  IF result.file_path # <<>> THEN Append(reports, result) ELSE reports

\* the comparison with the operands swapped
comp_Ascending(a, b) == RLt(a.shit_mountain_index, b.shit_mountain_index)

\* the lambda handed to std::sort
comp(a, b) == RLt(b.shit_mountain_index, a.shit_mountain_index)

\* what std::sort may leave: a permutation in which no later element comes
\* before an earlier one under comp; the order of equivalent elements is
\* unspecified
SortOutcomes(reports) ==
    LET n == Len(reports)
        perms == { f \in [1..n -> 1..n] : \A i, j \in 1..n : i # j => f[i] # f[j] }
        sorted(q) == \A i, j \in 1..n : i < j => ~comp(q[j], q[i])
    IN  { q \in { [i \in 1..n |-> reports[f[i]]] : f \in perms } : sorted(q) }

\* the sample contents: a function with one branch, and a lone comment
SourceWithFunction ==
    [tree |-> BuildTree(<<0, 1, 2>>, <<Node("translation_unit", "", ""),
                                       Node("function_definition", "", "fn"),
                                       Node("if_statement", "", "if")>>),
     has_error |-> FALSE]
SourceWithComment ==
    [tree |-> BuildTree(<<0, 1>>, <<Node("translation_unit", "", ""),
                                    Node("comment", "", "//")>>),
     has_error |-> FALSE]
SourceWithError == [SourceWithFunction EXCEPT !.has_error = TRUE]
SourceUnparsed == [tree |-> NullTree, has_error |-> FALSE]

Entry(path, regular, openable, source) ==
    [path |-> path, regular |-> regular, openable |-> openable, source |-> source]

SupportedPaths == {<<"a", ".", "c", "p", "p">>, <<"b", ".", "p", "y">>, <<"c", ".", "h">>}
OtherPaths == {<<"r", ".", "t", "x", "t">>, <<"M", "k">>, <<"d", ".", "c", "/", "x">>}

EntrySamples ==
    { Entry(path, TRUE, TRUE, source) :
        path \in SupportedPaths,
        source \in {SourceWithFunction, SourceWithComment, SourceWithError} }
    \cup { Entry(path, TRUE, FALSE, SourceWithFunction) : path \in SupportedPaths }
    \cup { Entry(path, TRUE, TRUE, SourceWithFunction) : path \in OtherPaths }
    \cup { Entry(<<"n", ".", "g", "o">>, TRUE, TRUE, SourceUnparsed),
           Entry(<<"s", ".", "c">>, FALSE, TRUE, SourceWithFunction) }

VisitedPaths == { visited[k].path : k \in 1..Len(visited) }

Init ==
    /\ pc = "main"
    /\ args \in [argc : {1, 2}, kind : {"missing", "directory", "regular", "other"}]
    /\ language = "unsupported"
    /\ tree = NullTree
    /\ metrics = FileMetrics
    /\ visited = <<>>
    /\ all_metrics = <<>>
    /\ exit_code = -1
    /\ Parser_Parser

\* argc < 2: the usage message
Usage ==
    /\ pc = "main"
    /\ args.argc < 2
    /\ pc' = "exited"
    /\ exit_code' = 1
    /\ UNCHANGED <<language, tree, metrics, args, visited, all_metrics,
                   parser, heap, calls>>

\* !fs::exists(path)
PathMissing ==
    /\ pc = "main"
    /\ args.argc >= 2
    /\ args.kind = "missing"
    /\ pc' = "exited"
    /\ exit_code' = 1
    /\ UNCHANGED <<language, tree, metrics, args, visited, all_metrics,
                   parser, heap, calls>>

\* main giving up on a path that is neither a directory nor a regular file
StartAnalysis_RefusingOther ==
    /\ pc = "main"
    /\ args.argc >= 2
    /\ args.kind # "missing"
    /\ pc' = IF args.kind = "other" THEN "exited" ELSE "traverse"
    /\ exit_code' = IF args.kind = "other" THEN 1 ELSE exit_code
    /\ UNCHANGED <<language, tree, metrics, args, visited, all_metrics,
                   parser, heap, calls>>

StartAnalysis ==
    /\ pc = "main"
    /\ args.argc >= 2
    /\ args.kind # "missing"
    /\ pc' = "traverse"
    /\ UNCHANGED <<language, tree, metrics, args, visited, all_metrics, exit_code,
                   parser, heap, calls>>

\* one step of the recursive_directory_iterator loop
VisitEntry ==
    /\ pc = "traverse"
    /\ args.kind = "directory"
    /\ Len(visited) < MaxFiles
    /\ \E entry \in EntrySamples :
          /\ entry.path \notin VisitedPaths
          /\ visited' = Append(visited, entry)
          /\ all_metrics' = IF entry.regular THEN Collect(all_metrics, entry)
                            ELSE all_metrics
    /\ UNCHANGED <<pc, language, tree, metrics, args, exit_code,
                   parser, heap, calls>>

\* the path is a regular file: it alone is analysed
AnalyzeArgument ==
    /\ pc = "traverse"
    /\ args.kind = "regular"
    /\ \E entry \in { e \in EntrySamples : e.regular } :
          /\ visited' = Append(visited, entry)
          /\ all_metrics' = Collect(all_metrics, entry)
    /\ pc' = "collected"
    /\ UNCHANGED <<language, tree, metrics, args, exit_code,
                   parser, heap, calls>>

\* the directory is exhausted, or the path is neither directory nor file
EndTraversal ==
    /\ pc = "traverse"
    /\ args.kind \in {"directory", "other"}
    /\ pc' = "collected"
    /\ UNCHANGED <<language, tree, metrics, args, visited, all_metrics, exit_code,
                   parser, heap, calls>>

\* std::sort, the ranking printed in the resulting order, return 0
SortAndPrint ==
    /\ pc = "collected"
    /\ all_metrics' \in SortOutcomes(all_metrics)
    /\ pc' = "exited"
    /\ exit_code' = 0
    /\ UNCHANGED <<language, tree, metrics, args, visited,
                   parser, heap, calls>>

Next ==
    \/ Usage
    \/ PathMissing
    \/ StartAnalysis
    \/ VisitEntry
    \/ AnalyzeArgument
    \/ EndTraversal
    \/ SortAndPrint

Spec == Init /\ [][Next]_vars

(***************************************************************************)
(* Parser.cpp: one Parser object through a sequence of parse calls and its *)
(* destruction.                                                            *)
(***************************************************************************)
SourceSamples == {SourceWithFunction, SourceWithComment, SourceWithError, SourceUnparsed}
LanguageSamples == {"cpp", "python", "unsupported"}

\* ts_tree_delete(h)
ts_tree_delete(hp, h) == [hp EXCEPT ![h].deleted = @ + 1]

\* Parser::getRootNode: the root of the tree the member points to, or TSNode()
getRootNode(p) ==
    IF p.tree = nullptr THEN [tree |-> nullptr, node |-> NullNode]
    ELSE [tree |-> p.tree, node |-> RootNode]

InitParser ==
    /\ pc = "parser"
    /\ language = "unsupported"
    /\ tree = NullTree
    /\ metrics = FileMetrics
    /\ args = [argc |-> 2, kind |-> "regular"]
    /\ visited = <<>>
    /\ all_metrics = <<>>
    /\ exit_code = -1
    /\ Parser_Parser

\* Parser::parse(sourceCode, language)
Parse ==
    /\ pc = "parser"
    /\ ~parser.destroyed
    /\ Len(calls) < MaxParses
    /\ \E source \in SourceSamples, lang \in LanguageSamples :
          IF getLanguage(lang) = "nullptr"
          THEN /\ calls' = Append(calls, [returned |-> FALSE, produced |-> nullptr])
               /\ UNCHANGED <<parser, heap>>
          ELSE LET kept == IF parser.tree # nullptr
                           THEN ts_tree_delete(heap, parser.tree)
                           ELSE heap
                   made == IF source.tree # NullTree
                           THEN Append(kept, [source |-> source, deleted |-> 0])
                           ELSE kept
                   new == IF source.tree # NullTree THEN Len(made) ELSE nullptr
               IN  /\ heap' = made
                   /\ parser' = [parser EXCEPT !.tree = new]
                   /\ calls' = Append(calls, [returned |-> Parser_parse(source, lang),
                                              produced |-> new])
    /\ UNCHANGED <<pc, language, tree, metrics, args, visited, all_metrics, exit_code>>

\* the destructor leaving the tree it holds undeleted
Parser_Destroy_LeavingTree ==
    /\ pc = "parser"
    /\ ~parser.destroyed
    /\ parser' = [parser EXCEPT !.destroyed = TRUE]
    /\ UNCHANGED <<pc, language, tree, metrics, args, visited, all_metrics, exit_code,
                   heap, calls>>

\* Parser::~Parser()
Parser_Destroy ==
    /\ pc = "parser"
    /\ ~parser.destroyed
    /\ heap' = IF parser.tree # nullptr THEN ts_tree_delete(heap, parser.tree) ELSE heap
    /\ parser' = [parser EXCEPT !.destroyed = TRUE]
    /\ UNCHANGED <<pc, language, tree, metrics, args, visited, all_metrics, exit_code,
                   calls>>

NextParser == Parse \/ Parser_Destroy

SpecParser == InitParser /\ [][NextParser]_vars

(***************************************************************************)
(* Claims about the scoring model, checked under SpecScore.                *)
(***************************************************************************)
Scored == pc = "scored"
InRange(x) == RLe(RInt(0), x) /\ RLe(x, RInt(100))
Pct(k) == Rat(k, 100)
\* 100 - (v - best) / (worst - best) * 100, cut off below at 0
LinearDecay(v, best, worst) ==
    RMax(RInt(0), RSub(RInt(100), RMul(RDiv(RSub(v, RInt(best)), RInt(worst - best)), RInt(100))))
StatedNaming(m) == RMax(RInt(0), RInt(100 - 5 * m.naming_violations))
StatedBellComment(m) ==
    RMax(RInt(0), RSub(RInt(100),
                       RMul(RDiv(RAbs(RSub(m.comment_coverage_ratio, RInt(15))), RInt(15)), RInt(100))))
StatedRampComment(m) == RMin(RInt(100), RMul(RDiv(m.comment_coverage_ratio, RInt(30)), RInt(100)))
StatedPolicyB(m) ==
    RSub(RInt(100),
         RAdd(RAdd(RMul(Pct(50), LinearDecay(m.avg_function_complexity, 1, 20)),
                   RMul(Pct(15), LinearDecay(m.avg_function_length, 10, 100))),
              RAdd(RMul(Pct(15), StatedBellComment(m)), RMul(Pct(20), StatedNaming(m)))))
StatedPolicyA(m) ==
    RSub(RInt(100), RAdd(RMul(Pct(70), StatedRampComment(m)), RMul(Pct(30), StatedNaming(m))))
\* the averages and the ratio are the quotients the claim names
AveragesAsStated(m) ==
    /\ m.avg_function_length.n * Len(m.functions)
         = SumField(m.functions, "length") * m.avg_function_length.d
    /\ m.avg_function_complexity.n * Len(m.functions)
         = SumField(m.functions, "complexity") * m.avg_function_complexity.d
    /\ m.comment_coverage_ratio.n * m.total_lines
         = 100 * m.comment_lines * m.comment_coverage_ratio.d
OneFunction(m, lines, cx) ==
    /\ Len(m.functions) = 1
    /\ m.functions[1].line_count = lines
    /\ m.functions[1].complexity = cx

\* C1: the final legacy_index (shit_mountain_index) of every scored report
\* lies in the closed range 0..100.
C1_IndexInRange == Scored => InRange(metrics.shit_mountain_index)

\* C2: every sub-score that enters the weighted sum (complexity, length,
\* comment and naming score under Policy B; comment and naming score under
\* Policy A) is within 0..100.
C2_SubScoresInRange ==
    Scored =>
        IF metrics.functions = <<>>
        THEN InRange(CommentScoreA(metrics)) /\ InRange(NamingScore(metrics))
        ELSE /\ InRange(ComplexityScore(metrics))
             /\ InRange(LengthScore(metrics))
             /\ InRange(CommentScoreB(metrics))
             /\ InRange(NamingScore(metrics))

\* C3: for every file with at least one function, legacy_index =
\* 100 - (0.50*complexity_score + 0.15*length_score + 0.15*comment_score +
\* 0.20*naming_score) with the four sub-scores as stated; one function of 10
\* lines, complexity 1, 15% comments, 0 violations gives exactly 0, and one
\* function of 100 lines, complexity 20, 0% comments, 0 violations gives 80.
C3_PolicyBFormula ==
    (Scored /\ metrics.functions # <<>>) =>
        /\ AveragesAsStated(metrics)
        /\ metrics.shit_mountain_index = StatedPolicyB(metrics)
        /\ (OneFunction(metrics, 10, 1) /\ metrics.comment_coverage_ratio = RInt(15)
              /\ metrics.naming_violations = 0)
             => metrics.shit_mountain_index = RInt(0)
        /\ (OneFunction(metrics, 100, 20) /\ metrics.comment_coverage_ratio = RInt(0)
              /\ metrics.naming_violations = 0)
             => metrics.shit_mountain_index = RInt(80)

C3_Witness ==
    /\ Scored
    /\ OneFunction(metrics, 100, 20)
    /\ metrics.comment_lines = 0
    /\ metrics.naming_violations = 0
    /\ metrics.shit_mountain_index = RInt(80)

\* C4: the scoring branch is decided by whether functions is empty alone: a
\* file with no function gets legacy_index = 100 - (0.7*min(100, ratio/30*100)
\* + 0.3*max(0, 100 - 5*naming_violations)) with no function-level term, a
\* file with a function gets the Policy B value; ratio = 30 with 0
\* violations and no function gives 0.
C4_BranchByEmptiness ==
    Scored =>
        IF metrics.functions = <<>>
        THEN /\ metrics.shit_mountain_index = StatedPolicyA(metrics)
             /\ metrics.avg_function_length = RInt(0)
             /\ metrics.avg_function_complexity = RInt(0)
             /\ (metrics.comment_coverage_ratio = RInt(30) /\ metrics.naming_violations = 0)
                  => metrics.shit_mountain_index = RInt(0)
        ELSE metrics.shit_mountain_index = StatedPolicyB(metrics)

C4_Witness ==
    /\ Scored
    /\ metrics.functions = <<>>
    /\ metrics.comment_coverage_ratio = RInt(30)
    /\ metrics.naming_violations = 0
    /\ metrics.shit_mountain_index = RInt(0)

\* C5: the quality score behind the index weighs the normalized complexity
\* score with 70% and the normalized function-length score with 30%
\* (LCI = 100 - QualityScore).
C5_ReadmeWeights ==
    (Scored /\ metrics.functions # <<>>) =>
        metrics.shit_mountain_index =
            RSub(RInt(100), RAdd(RMul(Pct(70), ComplexityScore(metrics)),
                                 RMul(Pct(30), LengthScore(metrics))))

(***************************************************************************)
(* Claims about the extraction, checked under SpecTree and SpecExempt.     *)
(***************************************************************************)
Analyzed == pc = "analyzed"
Strategy == createStrategy(language)
NodeIds(t) == 1..Len(t)

RECURSIVE Ancestors(_, _)
\* the proper ancestors of node n
Ancestors(t, n) ==
    IF t[n].parent = NullNode THEN {} ELSE {t[n].parent} \cup Ancestors(t, t[n].parent)

Subtree(t, n) == { j \in NodeIds(t) : j = n \/ n \in Ancestors(t, j) }
IsFunctionNode(t, n) == t[n].type \in getFunctionDefinitionTypes(Strategy)
HeldAs(t, n, field) == { c \in NodeIds(t) : t[c].parent = n /\ t[c].field = field }

\* a C/C++ function definition whose declarator contains a destructor_name
\* or an operator_name node
IsDestructorOrOperator(t, n) ==
    /\ language \in {"c", "cpp"}
    /\ t[n].type = "function_definition"
    /\ LET holders == IF HeldAs(t, n, "declarator") # {}
                      THEN HeldAs(t, n, "declarator")
                      ELSE HeldAs(t, n, "abstract_declarator")
       IN  /\ holders # {}
           /\ LET declarator == CHOOSE d \in holders : \A o \in holders : d <= o
              IN  \E j \in Subtree(t, declarator) :
                      t[j].type \in {"destructor_name", "operator_name"}

\* the tree with the definition at e replaced by opaque nodes of the same spans
Erased(t, e) ==
    [i \in NodeIds(t) |->
        IF i \in Subtree(t, e)
        THEN [t[i] EXCEPT !.type = "erased", !.field = IF i = e THEN @ ELSE ""]
        ELSE t[i]]

NoRecordOf(t, e) ==
    \A k \in 1..Len(metrics.functions) :
        ~(/\ metrics.functions[k].line_start = t[e].start_row + 1
          /\ metrics.functions[k].line_end = t[e].end_row + 1)

ContributesNothing(t, e) ==
    LET without == analyze(Strategy, Erased(t, e), metrics.file_path)
    IN  /\ without.avg_function_length = metrics.avg_function_length
        /\ without.avg_function_complexity = metrics.avg_function_complexity
        /\ (without.functions = <<>>) <=> (metrics.functions = <<>>)

\* C8 as stated: a C/C++ destructor or operator-overload definition never
\* appears in functions and contributes neither to avg_function_length nor to
\* avg_function_complexity nor to the choice between Policy A and Policy B.
C8_ExemptNeverContributes ==
    Analyzed =>
        \A e \in NodeIds(tree) :
            IsDestructorOrOperator(tree, e) =>
                NoRecordOf(tree, e) /\ ContributesNothing(tree, e)

\* C8 as amended: a C/C++ destructor or operator-overload definition never
\* appears in functions, and one with no function_definition ancestor
\* contributes neither to the two averages nor to the choice of the policy.
C8_ExemptOutsideFunctions ==
    Analyzed =>
        \A e \in NodeIds(tree) :
            IsDestructorOrOperator(tree, e) =>
                /\ NoRecordOf(tree, e)
                /\ (\A a \in Ancestors(tree, e) : ~IsFunctionNode(tree, a))
                     => ContributesNothing(tree, e)

C8_Witness ==
    /\ Analyzed
    /\ metrics.functions # <<>>
    /\ \E e \in NodeIds(tree) :
          /\ IsDestructorOrOperator(tree, e)
          /\ \A a \in Ancestors(tree, e) : ~IsFunctionNode(tree, a)
          /\ \E j \in Subtree(tree, e) : tree[j].type = "operator_name"

\* C9: every FunctionRecord stored in functions has complexity >= 1.
C9_ComplexityAtLeastOne ==
    Analyzed => \A k \in 1..Len(metrics.functions) : metrics.functions[k].complexity >= 1

C9_Witness ==
    /\ Analyzed
    /\ \E k \in 1..Len(metrics.functions) : metrics.functions[k].complexity = 1

\* the nodes function discovery records, in pre-order
RecordedNodes(t) ==
    SelectSeq([i \in NodeIds(t) |-> i],
              LAMBDA n : /\ IsFunctionNode(t, n)
                         /\ ~IsDestructorOrOperator(t, n)
                         /\ \A a \in Ancestors(t, n) : ~IsFunctionNode(t, a))

\* name extraction finds a node to take the name of function node n from
NameFound(t, n) ==
    CASE language \in {"c", "cpp"} ->
            /\ HeldAs(t, n, "declarator") # {}
            /\ LET declarator == CHOOSE d \in HeldAs(t, n, "declarator") :
                                     \A o \in HeldAs(t, n, "declarator") : d <= o
               IN  \E j \in Subtree(t, declarator) : t[j].type = "identifier"
      [] language \in {"javascript", "typescript"} ->
            \/ HeldAs(t, n, "name") # {}
            \/ /\ t[n].type = "arrow_function"
               /\ t[n].parent # NullNode
               /\ t[t[n].parent].type = "variable_declarator"
               /\ HeldAs(t, t[n].parent, "name") # {}
      [] OTHER -> HeldAs(t, n, "name") # {}

NamesWithin(placeholders) ==
    /\ Len(metrics.functions) = Len(RecordedNodes(tree))
    /\ \A k \in 1..Len(metrics.functions) :
          /\ metrics.functions[k].name # ""
          /\ ~NameFound(tree, RecordedNodes(tree)[k])
               => metrics.functions[k].name \in placeholders

\* C10 as stated: every FunctionRecord has a non-empty name, and when name
\* extraction finds no identifier the name is "[anonymous function]" or
\* "[extraction_failed]", for each of the eight language profiles.
C10_TwoPlaceholders ==
    Analyzed => NamesWithin({"[anonymous function]", "[extraction_failed]"})

\* C10 as amended: every FunctionRecord has a non-empty name, and when name
\* extraction finds no identifier the name is "[anonymous function]",
\* "[extraction_failed]" or "[anonymous/unknown]".
C10_ThreePlaceholders ==
    Analyzed =>
        NamesWithin({"[anonymous function]", "[extraction_failed]", "[anonymous/unknown]"})

C10_Witness ==
    /\ Analyzed
    /\ \E k \in 1..Len(metrics.functions) :
          /\ ~NameFound(tree, RecordedNodes(tree)[k])
          /\ metrics.functions[k].name = "[anonymous/unknown]"

(***************************************************************************)
(* Claims about the run, checked under Spec.                               *)
(***************************************************************************)
Ranked == pc = "exited" /\ exit_code = 0
ReportPaths == { all_metrics[k].file_path : k \in 1..Len(all_metrics) }
DiscoveryIndex(path) == CHOOSE k \in 1..Len(visited) : visited[k].path = path

Descending ==
    \A k \in 1..(Len(all_metrics) - 1) :
        RLe(all_metrics[k + 1].shit_mountain_index, all_metrics[k].shit_mountain_index)

TiesInDiscoveryOrder ==
    \A i, j \in 1..Len(all_metrics) :
        (i < j /\ all_metrics[i].shit_mountain_index = all_metrics[j].shit_mountain_index)
            => DiscoveryIndex(all_metrics[i].file_path) < DiscoveryIndex(all_metrics[j].file_path)

\* C6 as stated: the final ranking is ordered by legacy_index descending and
\* reports with equal legacy_index keep the order in which their files were
\* discovered (the sort is stable).
C6_DescendingAndStable == Ranked => (Descending /\ TiesInDiscoveryOrder)

\* C6 as amended: the final ranking is ordered by legacy_index descending;
\* it holds every collected report once, and the order of reports with equal
\* legacy_index is unspecified.
C6_DescendingRanking ==
    Ranked =>
        /\ Descending
        /\ \A i, j \in 1..Len(all_metrics) :
               i # j => all_metrics[i].file_path # all_metrics[j].file_path

C6_Witness ==
    /\ Ranked
    /\ Len(all_metrics) = 3
    /\ all_metrics[1].shit_mountain_index # all_metrics[2].shit_mountain_index
    /\ all_metrics[2].shit_mountain_index = all_metrics[3].shit_mountain_index

SupportedExtensions ==
    {<<".", "c", "p", "p">>, <<".", "h", "p", "p">>, <<".", "h">>, <<".", "c", "c">>,
     <<".", "c", "x", "x">>, <<".", "c">>, <<".", "p", "y">>, <<".", "j", "a", "v", "a">>,
     <<".", "r", "s">>, <<".", "g", "o">>, <<".", "j", "s">>, <<".", "t", "s">>}

HasSupportedExtension(path) ==
    \E k \in 1..Len(path) :
        /\ path[k] = "."
        /\ \A h \in (k + 1)..Len(path) : path[h] # "."
        /\ SubSeq(path, k, Len(path)) \in SupportedExtensions

\* the entry is a regular file with a supported extension that opens and
\* parses without a syntax error
Analyzable(e) ==
    /\ e.regular
    /\ HasSupportedExtension(e.path)
    /\ e.openable
    /\ e.source.tree # NullTree
    /\ ~e.source.has_error

\* C7: the reports of the final ranking are exactly the visited regular
\* files with a supported extension that open and parse without a syntax
\* error, each once; a file that is unsupported, unreadable or fails to parse
\* gives no report and leaves the analysis of the files after it as it is.
C7_ReportsAreTheAnalyzableFiles ==
    (pc \in {"traverse", "collected", "exited"}) =>
        /\ ReportPaths = { visited[k].path : k \in { h \in 1..Len(visited) : Analyzable(visited[h]) } }
        /\ Len(all_metrics) = Cardinality(ReportPaths)
        /\ \A k \in 1..Len(all_metrics) :
               LET e == visited[DiscoveryIndex(all_metrics[k].file_path)]
               IN  all_metrics[k] =
                       analyze(createStrategy(getLanguageFromFile(e.path)), e.source.tree, e.path)

C7_Witness ==
    /\ Ranked
    /\ Len(visited) = 3
    /\ ~Analyzable(visited[1]) /\ visited[1].source.has_error
    /\ ~Analyzable(visited[2]) /\ ~visited[2].openable
    /\ Analyzable(visited[3])
    /\ Len(all_metrics) = 1

(***************************************************************************)
(* Claims about the naming count, checked under SpecNaming.                *)
(***************************************************************************)
\* the names the naming rule lets pass although they are short
AllowedShortNames ==
    {"i", "j", "k", "x", "y", "z", "os", "fs", "it", "c", "ts", "js"}

\* the identifier nodes of the whole tree with the given text
IdentifiersNamed(text) ==
    { n \in NodeIds(tree) : tree[n].type = "identifier" /\ tree[n].text = text }

\* the identifier nodes the naming rule counts
ShortIdentifiers ==
    { n \in NodeIds(tree) : /\ tree[n].type = "identifier"
                      /\ Len(tree[n].text) <= 2
                      /\ tree[n].text \notin AllowedShortNames }

\* C11: naming_violations is the number of identifier nodes of the whole
\* tree whose text is at most two long and not an allowed short name: an
\* identifier "i" or "ts" or one of three letters never counts, every
\* identifier "aa" counts once, and no node of another type counts.
C11_NamingViolations ==
    Analyzed =>
        /\ metrics.naming_violations = Cardinality(ShortIdentifiers)
        /\ ShortIdentifiers = IdentifiersNamed("aa") \cup IdentifiersNamed("q")
        /\ metrics.naming_violations >= Cardinality(IdentifiersNamed("aa"))

\* a function holding an identifier "aa" beside an allowed "i": one violation
C11_Witness ==
    /\ Analyzed
    /\ metrics.naming_violations = 1
    /\ Len(metrics.functions) = 1
    /\ IdentifiersNamed("aa") # {}
    /\ IdentifiersNamed("i") # {}
    /\ \E n \in IdentifiersNamed("aa") : tree[n].parent # RootNode

ReportWith(fs) ==
    calculateFinalScore([FileMetrics EXCEPT !.file_path = metrics.file_path,
                                            !.functions = fs,
                                            !.total_lines = metrics.total_lines,
                                            !.comment_lines = metrics.comment_lines,
                                            !.naming_violations = metrics.naming_violations])

\* the reports that differ from the current one in the functions only
ReportsBeside ==
    { ReportWith(<<f>>) :
        f \in { g \in FunctionSamples : g.line_count <= metrics.total_lines } }

\* C13: with the other raw metrics fixed, a report whose average complexity
\* is not lower has a complexity score that is not higher, one whose average
\* length is not lower has a length score that is not higher, and under
\* Policy B the index is not lower when one average is not lower and the
\* other is the same.
C13_Monotone ==
    (Scored /\ metrics.functions # <<>>) =>
        \A o \in ReportsBeside :
            /\ RLe(metrics.avg_function_complexity, o.avg_function_complexity)
                    => RLe(ComplexityScore(o), ComplexityScore(metrics))
            /\ RLe(metrics.avg_function_length, o.avg_function_length)
                    => RLe(LengthScore(o), LengthScore(metrics))
            /\ ( /\ RLe(metrics.avg_function_complexity, o.avg_function_complexity)
                 /\ metrics.avg_function_length = o.avg_function_length )
                    => RLe(metrics.shit_mountain_index, o.shit_mountain_index)
            /\ ( /\ RLe(metrics.avg_function_length, o.avg_function_length)
                 /\ metrics.avg_function_complexity = o.avg_function_complexity )
                    => RLe(metrics.shit_mountain_index, o.shit_mountain_index)

\* average complexity 10.5 at average length 10, beside a report at complexity
\* 20 and length 10 with a strictly lower score and a strictly higher index
C13_Witness ==
    /\ Scored
    /\ metrics.avg_function_complexity = Rat(21, 2)
    /\ metrics.avg_function_length = RInt(10)
    /\ \E o \in ReportsBeside :
            /\ o.avg_function_complexity = RInt(20)
            /\ o.avg_function_length = RInt(10)
            /\ RLt(ComplexityScore(o), ComplexityScore(metrics))
            /\ RLt(metrics.shit_mountain_index, o.shit_mountain_index)

\* C14: with functions, an average complexity of exactly 1 scores exactly
\* 100 and every average complexity of 20 or more scores exactly 0.
C14_ComplexityEnds ==
    (Scored /\ metrics.functions # <<>>) =>
        /\ metrics.avg_function_complexity = RInt(1)
                => ComplexityScore(metrics) = RInt(100)
        /\ RLe(RInt(20), metrics.avg_function_complexity)
                => ComplexityScore(metrics) = RInt(0)

\* two functions of complexity 1 and 39: the average is exactly 20
C14_Witness ==
    /\ Scored
    /\ Len(metrics.functions) = 2
    /\ metrics.functions[1].complexity = 1
    /\ metrics.functions[2].complexity = 39
    /\ metrics.avg_function_complexity = RInt(20)
    /\ ComplexityScore(metrics) = RInt(0)

(***************************************************************************)
(* Claims about the exit of the run, checked under Spec.                   *)
(***************************************************************************)
Exited == pc = "exited"
PathGiven == args.argc >= 2

\* C15 as stated: the run ends with a non-zero exit code exactly when the
\* path is missing (or none is given) or is neither a regular file nor a
\* directory.
C15_FatalOnMissingOrOther ==
    Exited => (exit_code # 0 <=> (~PathGiven \/ args.kind \in {"missing", "other"}))

\* C15, amended: the run ends with exit code 1, nothing analysed, exactly when
\* no path is given or the path does not exist; with a path that exists it
\* ends with exit code 0 whatever the path is and whatever happens to the files.
C15_FatalOnMissingOnly ==
    Exited =>
        /\ exit_code \in {0, 1}
        /\ exit_code = 1 <=> (~PathGiven \/ args.kind = "missing")
        /\ exit_code = 1 => (visited = <<>> /\ all_metrics = <<>>)

\* a path that is neither a directory nor a regular file: an empty ranking, exit 0
C15_Witness ==
    /\ Exited
    /\ PathGiven
    /\ args.kind = "other"
    /\ exit_code = 0
    /\ all_metrics = <<>>

(***************************************************************************)
(* Claims about the Parser, checked under SpecParser.                      *)
(***************************************************************************)
\* the parse calls so far that returned true
Successes == { k \in 1..Len(calls) : calls[k].returned }

LastSuccess == CHOOSE k \in Successes : \A j \in Successes : j <= k

\* C16: once a parse call has returned true, getRootNode returns the root of
\* the tree of the last call that returned true, whatever calls returning
\* false came after it.
C16_RootOfLastSuccess ==
    (~parser.destroyed /\ Successes # {}) =>
        getRootNode(parser) = [tree |-> calls[LastSuccess].produced, node |-> RootNode]

(***************************************************************************)
(* Claims about the complexity count, checked under SpecDecisions.         *)
(***************************************************************************)
\* the nodes of the subtree of f that are decision points: of a type in
\* complexityNodeTypes(), or logical operators
DecisionNodes(t, f) ==
    { j \in Subtree(t, f) :
        \/ t[j].type \in getComplexityNodeTypes(Strategy)
        \/ isLogicalOperator(Strategy, t, j) }

\* the function-definition nodes of the subtree of f, f included
FunctionNodesWithin(t, f) == { j \in Subtree(t, f) : IsFunctionNode(t, j) }

\* C17 as stated: the complexity of every recorded function is 1 plus the
\* number of decision points of its subtree, also when the subtree holds
\* further function definitions.
C17_OnePlusDecisions ==
    Analyzed =>
        /\ Len(metrics.functions) = Len(RecordedNodes(tree))
        /\ \A k \in 1..Len(metrics.functions) :
              metrics.functions[k].complexity
                  = 1 + Cardinality(DecisionNodes(tree, RecordedNodes(tree)[k]))

\* C17, amended: the complexity of every recorded function is the number of
\* decision points of its subtree plus the number of function definitions
\* of its subtree, itself included: 1 plus the decision points when no
\* further function definition is nested in it.
C17_DecisionsPlusFunctions ==
    Analyzed =>
        /\ Len(metrics.functions) = Len(RecordedNodes(tree))
        /\ \A k \in 1..Len(metrics.functions) :
              LET f == RecordedNodes(tree)[k]
              IN  /\ metrics.functions[k].complexity
                        = Cardinality(DecisionNodes(tree, f))
                          + Cardinality(FunctionNodesWithin(tree, f))
                  /\ FunctionNodesWithin(tree, f) = {f}
                        => metrics.functions[k].complexity
                             = 1 + Cardinality(DecisionNodes(tree, f))

\* a recorded function holding a nested function definition and a logical operator
C17_Witness ==
    /\ Analyzed
    /\ Len(metrics.functions) = 1
    /\ metrics.functions[1].complexity = 3
    /\ LET f == RecordedNodes(tree)[1]
       IN  /\ Cardinality(FunctionNodesWithin(tree, f)) = 2
           /\ \E j \in DecisionNodes(tree, f) : isLogicalOperator(Strategy, tree, j)

(***************************************************************************)
(* Claims about the function discovery, checked under SpecTree.            *)
(***************************************************************************)
\* record k is the record of node n: it carries the rows of n (every drawn
\* node starts on a row of its own, in pre-order)
RecordOf(k, n) ==
    /\ metrics.functions[k].line_start = tree[n].start_row + 1
    /\ metrics.functions[k].line_end = tree[n].end_row + 1

\* the function-definition nodes below a function-definition node
NestedFunctionNodes(t) ==
    { n \in NodeIds(t) :
        /\ IsFunctionNode(t, n)
        /\ \E a \in Ancestors(t, n) : IsFunctionNode(t, a) }

\* C18: functions holds one record for each function definition that is not
\* exempt and has no function-definition ancestor, and for no other node,
\* in pre-order: a function definition nested in another one has no record,
\* and each record's node comes before the next record's node.
C18_DiscoveryInPreOrder ==
    Analyzed =>
        /\ Len(metrics.functions) = Len(RecordedNodes(tree))
        /\ \A k \in 1..Len(metrics.functions) : RecordOf(k, RecordedNodes(tree)[k])
        /\ \A k \in 1..(Len(metrics.functions) - 1) :
              metrics.functions[k].line_start < metrics.functions[k + 1].line_start
        /\ \A n \in NestedFunctionNodes(tree) :
              \A k \in 1..Len(metrics.functions) : ~RecordOf(k, n)

\* two recorded functions, the first with a function definition nested in it
C18_Witness ==
    /\ Analyzed
    /\ Len(metrics.functions) = 2
    /\ NestedFunctionNodes(tree) # {}
    /\ metrics.functions[1].line_start < metrics.functions[2].line_start

(***************************************************************************)
(* Claims about the line counts, checked under SpecComments.               *)
(***************************************************************************)
CommentNodes(t) == { n \in NodeIds(t) : t[n].type = "comment" }

RECURSIVE RowsOf(_, _)
\* the rows of the nodes ns added up, a node of rows a..b counting b - a + 1
RowsOf(t, ns) ==
    IF ns = {} THEN 0
    ELSE LET n == CHOOSE x \in ns : TRUE
         IN  (t[n].end_row - t[n].start_row + 1) + RowsOf(t, ns \ {n})

\* C19: total_lines is the end row of the root plus 1, comment_lines is the
\* sum of end row - start row + 1 over the comment nodes at any depth, and
\* comment_coverage_ratio is comment_lines / total_lines * 100 whether or
\* not a function was recorded.
C19_LineCounts ==
    Analyzed =>
        /\ metrics.total_lines = tree[RootNode].end_row + 1
        /\ metrics.comment_lines = RowsOf(tree, CommentNodes(tree))
        /\ metrics.comment_coverage_ratio
               = RMul(Rat(metrics.comment_lines, metrics.total_lines), RInt(100))

\* a two-row comment inside a recorded function of a file of three rows or more
C19_Witness ==
    /\ Analyzed
    /\ Len(metrics.functions) = 1
    /\ metrics.comment_lines = 2
    /\ metrics.total_lines >= 3
    /\ \E c \in CommentNodes(tree) :
          /\ tree[c].end_row = tree[c].start_row + 1
          /\ \E a \in Ancestors(tree, c) : IsFunctionNode(tree, a)

\* C20: comment_lines never exceeds total_lines and comment_coverage_ratio
\* lies within 0..100, also when several comment nodes share a row.
C20_CommentLinesBounded ==
    Analyzed =>
        /\ metrics.comment_lines <= metrics.total_lines
        /\ InRange(metrics.comment_coverage_ratio)

(***************************************************************************)
(* Claims about the discovery below exempt functions, checked under        *)
(* SpecExempt.                                                             *)
(***************************************************************************)
\* the function definitions strictly below e that are not exempt themselves
PlainFunctionsBelow(t, e) ==
    { n \in Subtree(t, e) \ {e} : IsFunctionNode(t, n) /\ ~IsDestructorOrOperator(t, n) }

\* C21: no node of the subtree of a destructor or operator-overload
\* definition has a record in functions: the discovery stops at the exempt
\* definition, so a function definition nested in it that is not exempt
\* itself yields no record.
C21_NothingRecordedBelowExempt ==
    Analyzed =>
        \A e \in NodeIds(tree) :
            IsDestructorOrOperator(tree, e) =>
                \A n \in Subtree(tree, e) : NoRecordOf(tree, n)

\* a destructor or operator definition with no function ancestor that holds
\* a function definition that is not exempt itself
C21_Witness ==
    /\ Analyzed
    /\ \E e \in NodeIds(tree) :
          /\ IsDestructorOrOperator(tree, e)
          /\ \A a \in Ancestors(tree, e) : ~IsFunctionNode(tree, a)
          /\ PlainFunctionsBelow(tree, e) # {}

(***************************************************************************)
(* Claims about the lifetime of the syntax trees, checked under SpecParser.*)
(***************************************************************************)
Trees == 1..Len(heap)

\* C22: every tree a parse call created is deleted exactly once: no tree is
\* ever deleted twice; while the Parser lives the tree it holds is the only
\* one not deleted yet, every replaced tree being deleted already; after
\* the destruction every tree is deleted, whatever the parse calls returned.
C22_TreesDeletedOnce ==
    /\ \A h \in Trees : heap[h].deleted <= 1
    /\ ~parser.destroyed =>
          \A h \in Trees : heap[h].deleted = (IF h = parser.tree THEN 0 ELSE 1)
    /\ parser.destroyed => \A h \in Trees : heap[h].deleted = 1

\* a destroyed Parser after three calls: a tree replaced, a tree with a
\* syntax error held at the destruction, and a call that created no tree
C22_Witness ==
    /\ parser.destroyed
    /\ Len(calls) = 3
    /\ Len(heap) = 2
    /\ parser.tree = 2
    /\ heap[2].source.has_error
    /\ \E k \in 1..Len(calls) : ~calls[k].returned /\ calls[k].produced = nullptr
    /\ \E k \in 1..Len(calls) : calls[k].returned

====
